---- MODULE Spec2Model ----
(***************************************************************************)
(* Playback coordinator of sequence-audio-backend (the latest snapshot of  *)
(* server.js): the queue engine, the broadcast helpers, the REST handlers  *)
(* and the WebSocket message handler, as one state machine.                *)
(*                                                                         *)
(* JavaScript values are records [t, v]: t is the typeof tag and v the     *)
(* payload; a string's payload is its sequence of characters, so that      *)
(* startsWith, trim and toLowerCase are computed and not assumed.          *)
(***************************************************************************)
EXTENDS Integers, Sequences, FiniteSets

\* Bounds of the model (not program constants).
MaxTracks == 3      \* track objects buildTrack may create in one run
MaxConns == 2       \* WebSocket connections that can exist

Conns == 1..MaxConns

----------------------------------------------------------------------------
\* JavaScript values

Undefined == [t |-> "undefined", v |-> <<>>]
Null == [t |-> "null", v |-> <<>>]
Str(s) == [t |-> "string", v |-> s]
Num(d) == [t |-> "number", v |-> d]

IsString(x) == x.t = "string"

\* ToBoolean: "", 0, null and undefined are falsy.
Truthy(x) ==
    \/ x.t = "string" /\ x.v # <<>>
    \/ x.t = "number" /\ x.v # <<"0">>

\* x || y
OrElse(x, y) == IF Truthy(x) THEN x ELSE y

startsWith(s, p) == Len(s) >= Len(p) /\ SubSeq(s, 1, Len(p)) = p

IsSpace(c) == c = " "

RECURSIVE trimStart(_)
trimStart(s) ==
    IF s # <<>> /\ IsSpace(Head(s)) THEN trimStart(Tail(s)) ELSE s

RECURSIVE trimEnd(_)
trimEnd(s) ==
    IF s # <<>> /\ IsSpace(s[Len(s)]) THEN trimEnd(SubSeq(s, 1, Len(s) - 1)) ELSE s

trim(s) == trimEnd(trimStart(s))

UpperCase == <<"A","B","C","D","E","F","G","H","I","J","K","L","M",
               "N","O","P","Q","R","S","T","U","V","W","X","Y","Z">>
LowerCase == <<"a","b","c","d","e","f","g","h","i","j","k","l","m",
               "n","o","p","q","r","s","t","u","v","w","x","y","z">>

toLowerChar(c) ==
    IF \E i \in DOMAIN UpperCase : UpperCase[i] = c
    THEN LowerCase[CHOOSE i \in DOMAIN UpperCase : UpperCase[i] = c]
    ELSE c

toLowerCase(s) == [i \in DOMAIN s |-> toLowerChar(s[i])]

\* String(x): only strings, undefined and null reach it here.
StringOf(x) ==
    CASE x.t = "string" -> x.v
      [] x.t = "undefined" -> <<"u","n","d","e","f","i","n","e","d">>
      [] x.t = "null" -> <<"n","u","l","l">>
      [] OTHER -> x.v

\* The string literals of the program.
sHttp == <<"h","t","t","p">>
sNowPlaying == Str(<<"N","o","w"," ","p","l","a","y","i","n","g">>)
sServer == Str(<<"S","e","r","v","e","r">>)
sPlay == Str(<<"p","l","a","y">>)
sStop == Str(<<"s","t","o","p">>)
sSkip == Str(<<"s","k","i","p">>)
sQueue == Str(<<"q","u","e","u","e">>)
sEnded == Str(<<"e","n","d","e","d">>)
sError == Str(<<"e","r","r","o","r">>)
sQueueList == Str(<<"q","u","e","u","e","L","i","s","t">>)
sNotFound ==
    Str(<<"S","o","n","g"," ","n","o","t"," ","f","o","u","n","d"," ",
        "/"," ","I","n","v","a","l","i","d"," ","P","a","y","l","o","a","d">>)

----------------------------------------------------------------------------
\* Configuration and song library

\* The values process.env.RADIO_KEY may have: unset (""), or a secret.
sSecret == Str(<<"k">>)
RadioKeys == {Str(<<>>), sSecret}

\* songs.json: normalized name -> {url, title}; one entry has no title.
urlDirect == Str(<<"h","t","t","p","1">>)
urlSongAb == Str(<<"h","t","t","p","2">>)
urlSongN == Str(<<"h","t","t","p","3">>)
SongNames == { <<"a","b">>, <<"n">> }
SONGS ==
    [k \in SongNames |->
        IF k = <<"a","b">>
        THEN [url |-> urlSongAb, title |-> Str(<<"A","b">>)]
        ELSE [url |-> urlSongN, title |-> Undefined]]

\* Lower-case property names every object inherits from Object.prototype:
\* SONGS[name] is truthy for them and has neither url nor title.
InheritedNames == { <<"c","o","n","s","t","r","u","c","t","o","r">>,
                    <<"_","_","p","r","o","t","o","_","_">> }

norm(s) == trim(toLowerCase(StringOf(OrElse(s, Str(<<>>)))))

\* SONGS[norm(query)] || null
resolveSong(query) ==
    LET k == norm(query) IN
    IF k \in SongNames THEN SONGS[k]
    ELSE IF k \in InheritedNames THEN [url |-> Undefined, title |-> Undefined]
    ELSE Null

----------------------------------------------------------------------------
\* Resolve input -> track.  The result is null or {url, text, requester}.

buildTrack(url, query, text, requester) ==
    LET reqBy == OrElse(requester, sServer)
        search == IF ~Truthy(query) /\ IsString(url) /\ trim(url.v) # <<>>
                  THEN url ELSE query
        found == resolveSong(search)
    IN  IF IsString(url) /\ startsWith(url.v, sHttp)
        THEN [url |-> url,
              text |-> IF IsString(text) /\ trim(text.v) # <<>>
                       THEN text ELSE sNowPlaying,
              requester |-> reqBy]
        ELSE IF IsString(search) /\ trim(search.v) # <<>> /\ found # Null
        THEN [url |-> found.url,
              text |-> OrElse(found.title,
                              IF IsString(text) THEN text ELSE sNowPlaying),
              requester |-> reqBy]
        ELSE Null

----------------------------------------------------------------------------
\* State

VARIABLES
    RADIO_KEY,      \* process.env.RADIO_KEY || ""
    currentState,   \* the flat state {action, url, text, requester}
    nowPlaying,     \* null or the current track object
    queue,          \* array of track objects
    nextRef,        \* identity of the next track object buildTrack creates
    readyState,     \* per connection: "NONE" (not in wss.clients), "OPEN", "CLOSING"
    sent,           \* per connection: the messages the latest handler sent to it
    response,       \* the HTTP response of the latest handler (status 0: none)
    crashed,        \* an exception escaped a handler: the process is gone
    lastCmd,        \* the latest event: the request or message a handler was given
    playLog,        \* identities of the tracks startTrack has started, in order
    lastBroadcast,  \* the two messages the latest broadcastState serialized
    heard,          \* per connection: the latest flat state message it received
    player,         \* per connection: identity of the track its page is playing (0: none)
    pending,        \* per connection: its "ended" message still on the wire
    reported,       \* <<connection, track identity>>: ends the page has signalled
    endAdv,         \* per track identity: nextTrack calls made for the "ended" messages
                    \* of its end, counted from the latest command on
    threw           \* the connections whose send threw in the latest handler

vars == <<RADIO_KEY, currentState, nowPlaying, queue, nextRef, readyState, sent,
          response, crashed, lastCmd, playLog, lastBroadcast, heard, player,
          pending, reported, endAdv, threw>>

Refs == 1..MaxTracks

Idle == [action |-> sStop, url |-> Null, text |-> Null, requester |-> Null]

NoSent == [c \in Conns |-> <<>>]
NoResponse == [status |-> 0, body |-> "none"]
NoData == [action |-> Undefined, url |-> Undefined, query |-> Undefined,
           text |-> Undefined, requester |-> Undefined, key |-> Undefined]
NoMsg == [action |-> Undefined]
NoPending == [url |-> Undefined, ev |-> 0]
NoAdvances == [r \in Refs |-> 0]

\* JSON.stringify of a flat object: properties whose value is undefined are left out.
stringify(obj) == [f \in {g \in DOMAIN obj : obj[g] # Undefined} |-> obj[f]]

\* The {url, text, requester} object a track is (its identity is not a property).
TrackObj(t) == [url |-> t.url, text |-> t.text, requester |-> t.requester]

----------------------------------------------------------------------------
\* Broadcast helpers.  A handler runs on a machine record m: the playback
\* state it reads and writes, out, the messages it has sent so far, bad, the
\* connections whose send throws, and threw, the connections whose send has
\* thrown: once threw is not empty an exception is on its way up and the
\* statements that follow are not run.

MachineWith(bad) ==
    [nowPlaying |-> nowPlaying, queue |-> queue, currentState |-> currentState,
     out |-> NoSent, playLog |-> playLog, lastBroadcast |-> lastBroadcast,
     bad |-> bad, threw |-> {}]

Machine == MachineWith({})

\* The open connections a loop over wss.clients reaches before a send throws
\* (wss.clients is walked in the order of the connection numbers).
Thrower(m) == {c \in Conns : readyState[c] = "OPEN" /\ c \in m.bad}
Reached(m) ==
    {c \in Conns : readyState[c] = "OPEN" /\ \A f \in Thrower(m) : c < f}

\* for (const client of wss.clients) if (client.readyState === OPEN) client.send(msg)
\* There is no try around send: the first send that throws ends the loop.
broadcast(m, msg) ==
    IF m.threw # {} THEN m
    ELSE [m EXCEPT
            !.out = [c \in Conns |->
                       IF c \in Reached(m) THEN Append(m.out[c], msg) ELSE m.out[c]],
            !.threw = {f \in Thrower(m) : \A g \in Thrower(m) : f <= g}]

\* The queue snapshot broadcastState sends.
QueueMsg(np, q) ==
    [action |-> sQueue,
     nowPlaying |-> IF np = Null THEN Null ELSE stringify(TrackObj(np)),
     queue |-> [i \in DOMAIN q |->
                  stringify([text |-> q[i].text, requester |-> q[i].requester])]]

\* The queue snapshot the connection handler sends to a new client.
SyncQueueMsg(np, q) ==
    [action |-> sQueue,
     nowPlaying |-> IF np = Null THEN Null ELSE stringify(TrackObj(np)),
     queue |-> [i \in DOMAIN q |-> stringify([text |-> q[i].text])]]

broadcastState(m) ==
    LET s == stringify(m.currentState)
        q == QueueMsg(m.nowPlaying, m.queue)
        m2 == broadcast(broadcast(m, s), q)
    IN  IF m2.threw # {} THEN m2 ELSE [m2 EXCEPT !.lastBroadcast = <<s, q>>]

----------------------------------------------------------------------------
\* Queue engine

\* Mutant of startTrack: the state is broadcast before it is updated.
startTrackStale(m, track) ==
    LET m1 == broadcastState([m EXCEPT !.nowPlaying = track])
    IN  [m1 EXCEPT !.currentState = [action |-> sPlay, url |-> track.url,
                                     text |-> track.text,
                                     requester |-> track.requester],
                   !.playLog = Append(@, track.ref)]

startTrack(m, track) ==
    LET m1 == [m EXCEPT !.nowPlaying = track,
                        !.currentState = [action |-> sPlay, url |-> track.url,
                                          text |-> track.text,
                                          requester |-> track.requester]]
        m2 == broadcastState(m1)
    IN  IF m2.threw # {} THEN m2 ELSE [m2 EXCEPT !.playLog = Append(@, track.ref)]

\* Mutant of nextTrack: a skip that throws the rest of the queue away.
nextTrackDropsRest(m) ==
    IF Len(m.queue) = 0
    THEN broadcastState([m EXCEPT !.nowPlaying = Null, !.currentState = Idle])
    ELSE startTrack([m EXCEPT !.queue = <<>>], Head(m.queue))

\* Mutant of nextTrack: with nothing queued, the flat state is left as it was.
nextTrackKeepsState(m) ==
    IF Len(m.queue) = 0
    THEN broadcastState([m EXCEPT !.nowPlaying = Null])
    ELSE startTrack([m EXCEPT !.queue = Tail(@)], Head(m.queue))

\* Mutant of nextTrack: with nothing queued, the last track stays current.
nextTrackStuck(m) ==
    IF Len(m.queue) = 0
    THEN m
    ELSE startTrack([m EXCEPT !.queue = Tail(@)], Head(m.queue))

\* Mutant of nextTrack: the head of the queue is not promoted.
nextTrackNoPromote(m) ==
    broadcastState([m EXCEPT !.nowPlaying = Null, !.currentState = Idle])

nextTrack(m) ==
    IF Len(m.queue) = 0
    THEN broadcastState([m EXCEPT !.nowPlaying = Null, !.currentState = Idle])
    ELSE startTrack([m EXCEPT !.queue = Tail(@)], Head(m.queue))

\* Mutant of enqueueOrPlay: a play always replaces the current track.
enqueueOrPlayReplaces(m, track) == startTrack(m, track)

\* Mutant of enqueueOrPlay: unshift instead of push.
enqueueOrPlayFront(m, track) ==
    IF m.nowPlaying = Null
    THEN startTrack(m, track)
    ELSE broadcastState([m EXCEPT !.queue = <<track>> \o @])

enqueueOrPlay(m, track) ==
    IF m.nowPlaying = Null
    THEN startTrack(m, track)
    ELSE broadcastState([m EXCEPT !.queue = Append(@, track)])

\* Mutant of isAuthorized: any key passes when a secret is set.
isAuthorizedAnyKey(key) ==
    IF ~Truthy(RADIO_KEY) THEN TRUE ELSE Truthy(key)

\* Mutant of isAuthorized: the key is compared even when no secret is set.
isAuthorizedStrict(key) == key = RADIO_KEY

\* if (!RADIO_KEY) return true; return data && data.key === RADIO_KEY;
isAuthorized(key) ==
    IF ~Truthy(RADIO_KEY) THEN TRUE ELSE key = RADIO_KEY

----------------------------------------------------------------------------
\* Inputs.  A request body or a message is [json, data]: json tells what
\* JSON.parse makes of the bytes ("invalid": it throws; "null"; "number";
\* "object"; "none": no body) and data holds the properties of an object.

Data(action, url, query, text, requester, key) ==
    [action |-> action, url |-> url, query |-> query, text |-> text,
     requester |-> requester, key |-> key]

Req(via, conn, json, data) ==
    [via |-> via, conn |-> conn, json |-> json, data |-> data]

\* The properties a handler reads: a number has none, a missing body is {}.
Props(json, data) == IF json = "object" THEN data ELSE NoData

\* A track object buildTrack has just created, with its identity.
NewTrack(t) ==
    [url |-> t.url, text |-> t.text, requester |-> t.requester, ref |-> nextRef]

\* What a handler leaves: the machine, whether an exception escaped it,
\* whether it created a track object, whether an "ended" message advanced,
\* and the HTTP response.
Result(m, crash, built, adv, resp) ==
    [m |-> m, crash |-> crash, built |-> built, adv |-> adv, resp |-> resp]

Http(status, body) == [status |-> status, body |-> body]

\* The end of a REST handler that called into the engine: res.json(...), or,
\* when a send threw, the 500 of the framework's error handler.
Replied(m, built) ==
    Result(m, FALSE, built, FALSE,
           IF m.threw # {} THEN Http(500, "error") ELSE Http(200, "success"))

\* The end of a message handler that called into the engine: when a send
\* threw, the exception leaves the listener and nothing catches it.
Returned(m, built, adv) == Result(m, m.threw # {}, built, adv, NoResponse)

ErrorMsg == [action |-> sError, text |-> sNotFound]

----------------------------------------------------------------------------
\* REST API

\* Mutant of postPlay: a name the library does not know is answered 404.
postPlayNotFound(m, json, body) ==
    LET d == Props(json, body)
        track == buildTrack(d.url, d.query, d.text, d.requester)
    IN  IF ~isAuthorized(d.key)
        THEN Result(m, FALSE, FALSE, FALSE, Http(403, "unauthorized"))
        ELSE IF track = Null /\ Truthy(d.query)
        THEN Result(m, FALSE, FALSE, FALSE, Http(404, "not found"))
        ELSE IF track = Null
        THEN Result(m, FALSE, FALSE, FALSE, Http(400, "invalid url/query"))
        ELSE Replied(enqueueOrPlay(m, NewTrack(track)), TRUE)

postPlay(m, json, body) ==
    LET d == Props(json, body)
        track == buildTrack(d.url, d.query, d.text, d.requester)
    IN  IF ~isAuthorized(d.key)
        THEN Result(m, FALSE, FALSE, FALSE, Http(403, "unauthorized"))
        ELSE IF track = Null
        THEN Result(m, FALSE, FALSE, FALSE, Http(400, "invalid url/query"))
        ELSE Replied(enqueueOrPlay(m, NewTrack(track)), TRUE)

\* Mutant of postStop: the queue is not cleared.
postStopKeepsQueue(m, json, body) ==
    LET d == Props(json, body)
    IN  IF ~isAuthorized(d.key)
        THEN Result(m, FALSE, FALSE, FALSE, Http(403, "unauthorized"))
        ELSE Result(broadcastState([m EXCEPT !.nowPlaying = Null,
                                             !.currentState = Idle]),
                    FALSE, FALSE, FALSE, Http(200, "success"))

postStop(m, json, body) ==
    LET d == Props(json, body)
    IN  IF ~isAuthorized(d.key)
        THEN Result(m, FALSE, FALSE, FALSE, Http(403, "unauthorized"))
        ELSE Replied(broadcastState([m EXCEPT !.nowPlaying = Null, !.queue = <<>>,
                                              !.currentState = Idle]), FALSE)

\* Mutant of postSkip: skip clears everything, as stop does.
postSkipStops(m, json, body) ==
    LET d == Props(json, body)
    IN  IF ~isAuthorized(d.key)
        THEN Result(m, FALSE, FALSE, FALSE, Http(403, "unauthorized"))
        ELSE Result(broadcastState([m EXCEPT !.nowPlaying = Null, !.queue = <<>>,
                                             !.currentState = Idle]),
                    FALSE, FALSE, FALSE, Http(200, "success"))

postSkip(m, json, body) ==
    LET d == Props(json, body)
    IN  IF ~isAuthorized(d.key)
        THEN Result(m, FALSE, FALSE, FALSE, Http(403, "unauthorized"))
        ELSE Replied(nextTrack(m), FALSE)

----------------------------------------------------------------------------
\* WebSocket message handler

\* Mutant of onEnded: the location of the message is not compared.
onEndedAnyUrl(m, d) ==
    IF m.nowPlaying # Null
    THEN Result(nextTrack(m), FALSE, FALSE, TRUE, NoResponse)
    ELSE Result(m, FALSE, FALSE, FALSE, NoResponse)

\* Mutant of onEnded: the message needs the key, as the commands do.
onEndedGated(m, d) ==
    IF isAuthorized(d.key) /\ m.nowPlaying # Null /\ d.url = m.nowPlaying.url
    THEN Returned(nextTrack(m), FALSE, TRUE)
    ELSE Result(m, FALSE, FALSE, FALSE, NoResponse)

onEnded(m, d) ==
    IF m.nowPlaying # Null /\ d.url = m.nowPlaying.url
    THEN Returned(nextTrack(m), FALSE, TRUE)
    ELSE Result(m, FALSE, FALSE, FALSE, NoResponse)

\* Mutant of onPlay: a play that resolves to no track tells nobody.
onPlaySilent(m, d) ==
    LET track == buildTrack(d.url, d.query, d.text, d.requester)
    IN  IF ~isAuthorized(d.key) \/ track = Null
        THEN Result(m, FALSE, FALSE, FALSE, NoResponse)
        ELSE Returned(enqueueOrPlay(m, NewTrack(track)), TRUE, FALSE)

onPlay(m, d) ==
    LET track == buildTrack(d.url, d.query, d.text, d.requester)
    IN  IF ~isAuthorized(d.key)
        THEN Result(m, FALSE, FALSE, FALSE, NoResponse)
        ELSE IF track = Null
        THEN Returned(broadcast(m, ErrorMsg), FALSE, FALSE)
        ELSE Returned(enqueueOrPlay(m, NewTrack(track)), TRUE, FALSE)

\* Mutant of onStop: the current track is stopped, the queue is kept.
onStopKeepsQueue(m, d) ==
    IF ~isAuthorized(d.key)
    THEN Result(m, FALSE, FALSE, FALSE, NoResponse)
    ELSE Result(broadcastState([m EXCEPT !.nowPlaying = Null,
                                         !.currentState = Idle]),
                FALSE, FALSE, FALSE, NoResponse)

onStop(m, d) ==
    IF ~isAuthorized(d.key)
    THEN Result(m, FALSE, FALSE, FALSE, NoResponse)
    ELSE Returned(broadcastState([m EXCEPT !.nowPlaying = Null, !.queue = <<>>,
                                           !.currentState = Idle]), FALSE, FALSE)

onSkip(m, d) ==
    IF ~isAuthorized(d.key)
    THEN Result(m, FALSE, FALSE, FALSE, NoResponse)
    ELSE Returned(nextTrack(m), FALSE, FALSE)

\* socket.on("message"): JSON.parse in a try/catch, then the action chain.
\* JSON.parse("null") is null, and reading data.action of null throws
\* outside any try: the exception escapes the handler.
onMessage(m, json, data) ==
    LET d == Props(json, data)
    IN  IF json = "invalid" THEN Result(m, FALSE, FALSE, FALSE, NoResponse)
        ELSE IF json = "null" THEN Result(m, TRUE, FALSE, FALSE, NoResponse)
        ELSE IF d.action = sEnded THEN onEnded(m, d)
        ELSE IF d.action = sPlay THEN onPlay(m, d)
        ELSE IF d.action = sStop THEN onStop(m, d)
        ELSE IF d.action = sSkip THEN onSkip(m, d)
        ELSE Result(m, FALSE, FALSE, FALSE, NoResponse)

----------------------------------------------------------------------------
\* The inputs the model draws from

sWrong == Str(<<"x">>)
Keys == {Undefined, sSecret, sWrong}

\* <<url, query, text, requester, key>> of a play command: a direct link with
\* text and requester (with the secret, with no key, with a wrong key), a bare
\* name in url that the library knows, a name the library does not know, and
\* nothing usable.
PlayArgs ==
    { <<urlDirect, Undefined, Str(<<"T">>), Str(<<"R">>), sSecret>>,
      <<urlDirect, Undefined, Str(<<"T">>), Str(<<"R">>), Undefined>>,
      <<urlDirect, Undefined, Str(<<"T">>), Str(<<"R">>), sWrong>>,
      <<Str(<<"A","b"," ">>), Undefined, Undefined, Undefined, sSecret>>,
      <<Undefined, Str(<<"z">>), Undefined, Undefined, sSecret>>,
      <<Undefined, Undefined, Undefined, Undefined, sSecret>> }

PlayData == { Data(sPlay, a[1], a[2], a[3], a[4], a[5]) : a \in PlayArgs }
StopData == { Data(sStop, Undefined, Undefined, Undefined, Undefined, k) : k \in Keys }
SkipData == { Data(sSkip, Undefined, Undefined, Undefined, Undefined, k) : k \in Keys }
EndedUrls == {urlDirect, urlSongAb, Undefined}
EndedData ==
    { Data(sEnded, u, Undefined, Undefined, Undefined, Undefined) : u \in EndedUrls }
    \cup { Data(sEnded, urlDirect, Undefined, Undefined, Undefined, k) :
             k \in {sSecret, sWrong} }
OtherData == { Data(sQueueList, Undefined, Undefined, Undefined, Undefined, Undefined),
               Data(Num(<<"7">>), Undefined, Undefined, Undefined, Undefined, sSecret) }

\* What a connection can send.
WsInputs ==
    { [json |-> "object", data |-> d] :
        d \in PlayData \cup StopData \cup SkipData \cup EndedData \cup OtherData }
    \cup { [json |-> j, data |-> NoData] : j \in {"invalid", "null", "number"} }

\* What a request can carry (the body parser passes objects, or no body).
BodiesOf(S) ==
    { [json |-> "object", data |-> [d EXCEPT !.action = Undefined]] : d \in S }
    \cup { [json |-> "none", data |-> NoData] }

----------------------------------------------------------------------------
\* Initial state

Init ==
    /\ RADIO_KEY \in RadioKeys
    /\ currentState = Idle
    /\ nowPlaying = Null
    /\ queue = <<>>
    /\ nextRef = 1
    /\ readyState = [c \in Conns |-> "NONE"]
    /\ sent = NoSent
    /\ response = NoResponse
    /\ crashed = FALSE
    /\ lastCmd = Req("start", 0, "none", NoData)
    /\ playLog = <<>>
    /\ lastBroadcast = <<stringify(Idle), QueueMsg(Null, <<>>)>>
    /\ heard = [c \in Conns |-> NoMsg]
    /\ player = [c \in Conns |-> 0]
    /\ pending = [c \in Conns |-> NoPending]
    /\ reported = {}
    /\ endAdv = NoAdvances
    /\ threw = {}

----------------------------------------------------------------------------
\* Steps

IsStateMsg(msg) == msg.action \in {sPlay, sStop}

\* What a page keeps of the messages it receives: the latest flat state,
\* and the track that state started.
Hear(c, msgs, np) ==
    LET s == SelectSeq(msgs, IsStateMsg)
    IN  IF s = <<>> THEN [msg |-> heard[c], ref |-> player[c]]
        ELSE [msg |-> s[Len(s)],
              ref |-> IF s[Len(s)].action = sPlay THEN np.ref ELSE 0]

\* A handler has run to its end (or to the exception that escaped it).
Handled(r, cmd) ==
    \E h \in {r} :
        /\ nowPlaying' = h.m.nowPlaying
        /\ queue' = h.m.queue
        /\ currentState' = h.m.currentState
        /\ playLog' = h.m.playLog
        /\ lastBroadcast' = h.m.lastBroadcast
        /\ sent' = h.m.out
        /\ heard' = [c \in Conns |-> Hear(c, h.m.out[c], h.m.nowPlaying).msg]
        /\ player' = [c \in Conns |-> Hear(c, h.m.out[c], h.m.nowPlaying).ref]
        /\ nextRef' = IF h.built THEN nextRef + 1 ELSE nextRef
        /\ crashed' = h.crash
        /\ response' = h.resp
        /\ lastCmd' = cmd
        /\ threw' = h.m.threw
        /\ UNCHANGED <<RADIO_KEY, readyState>>

\* wss.on("connection"): the socket joins wss.clients and is sent the flat
\* state and a queue snapshot.
Connect(c) ==
    /\ ~crashed
    /\ readyState[c] = "NONE"
    /\ readyState' = [readyState EXCEPT ![c] = "OPEN"]
    /\ sent' = [NoSent EXCEPT ![c] = <<stringify(currentState),
                                       SyncQueueMsg(nowPlaying, queue)>>]
    /\ heard' = [heard EXCEPT ![c] = Hear(c, sent'[c], nowPlaying).msg]
    /\ player' = [player EXCEPT ![c] = Hear(c, sent'[c], nowPlaying).ref]
    /\ response' = NoResponse
    /\ lastCmd' = Req("connection", c, "none", NoData)
    /\ threw' = {}
    /\ UNCHANGED <<RADIO_KEY, currentState, nowPlaying, queue, nextRef, crashed,
                   playLog, lastBroadcast, pending, reported, endAdv>>

\* The socket starts closing: it is still in wss.clients, no longer OPEN, and
\* its page is no longer listening.
Closing(c) ==
    /\ ~crashed
    /\ readyState[c] = "OPEN"
    /\ readyState' = [readyState EXCEPT ![c] = "CLOSING"]
    /\ heard' = [heard EXCEPT ![c] = NoMsg]
    /\ player' = [player EXCEPT ![c] = 0]
    /\ sent' = NoSent
    /\ response' = NoResponse
    /\ lastCmd' = Req("closing", c, "none", NoData)
    /\ threw' = {}
    /\ UNCHANGED <<RADIO_KEY, currentState, nowPlaying, queue, nextRef, crashed,
                   playLog, lastBroadcast, pending, reported, endAdv>>

\* The socket has closed: it leaves wss.clients.
Closed(c) ==
    /\ ~crashed
    /\ readyState[c] = "CLOSING"
    /\ readyState' = [readyState EXCEPT ![c] = "NONE"]
    /\ pending' = [pending EXCEPT ![c] = NoPending]
    /\ sent' = NoSent
    /\ response' = NoResponse
    /\ lastCmd' = Req("close", c, "none", NoData)
    /\ threw' = {}
    /\ UNCHANGED <<RADIO_KEY, currentState, nowPlaying, queue, nextRef, crashed,
                   playLog, lastBroadcast, heard, player, reported, endAdv>>

HttpPlayOn(b, bad) ==
    /\ ~crashed
    /\ nextRef <= MaxTracks
    /\ Handled(postPlay(MachineWith(bad), b.json, b.data), Req("POST /play", 0, b.json, b.data))
    /\ endAdv' = NoAdvances
    /\ UNCHANGED <<pending, reported>>

HttpPlay(b) == HttpPlayOn(b, {})

HttpStopOn(b, bad) ==
    /\ ~crashed
    /\ Handled(postStop(MachineWith(bad), b.json, b.data), Req("POST /stop", 0, b.json, b.data))
    /\ endAdv' = NoAdvances
    /\ UNCHANGED <<pending, reported>>

HttpStop(b) == HttpStopOn(b, {})

HttpSkipOn(b, bad) ==
    /\ ~crashed
    /\ Handled(postSkip(MachineWith(bad), b.json, b.data), Req("POST /skip", 0, b.json, b.data))
    /\ endAdv' = NoAdvances
    /\ UNCHANGED <<pending, reported>>

HttpSkip(b) == HttpSkipOn(b, {})

\* Any message from an open connection (the handler does not look at which).
WsMessageOn(i, bad) ==
    /\ ~crashed
    /\ {c \in Conns : readyState[c] = "OPEN"} # {}
    /\ (i.json = "object" /\ i.data.action = sPlay) => nextRef <= MaxTracks
    /\ Handled(onMessage(MachineWith(bad), i.json, i.data), Req("message", 0, i.json, i.data))
    /\ endAdv' = NoAdvances
    /\ UNCHANGED <<pending, reported>>

WsMessage(i) == WsMessageOn(i, {})

\* The page of connection c hears its track end and signals it, once per track.
EndedSend(c) ==
    /\ ~crashed
    /\ readyState[c] = "OPEN"
    /\ player[c] # 0
    /\ <<c, player[c]>> \notin reported
    /\ pending[c] = NoPending
    /\ pending' = [pending EXCEPT ![c] =
                     [url |-> IF "url" \in DOMAIN heard[c] THEN heard[c].url
                              ELSE Undefined,
                      ev |-> player[c]]]
    /\ reported' = reported \cup {<<c, player[c]>>}
    /\ sent' = NoSent
    /\ response' = NoResponse
    /\ lastCmd' = Req("page", c, "none", NoData)
    /\ threw' = {}
    /\ UNCHANGED <<RADIO_KEY, currentState, nowPlaying, queue, nextRef, readyState,
                   crashed, playLog, lastBroadcast, heard, player, endAdv>>

\* The "ended" message of connection c arrives.
EndedRecv(c) ==
    LET d == Data(sEnded, pending[c].url, Undefined, Undefined, Undefined, Undefined)
        r == onMessage(Machine, "object", d)
    IN  /\ ~crashed
        /\ readyState[c] # "NONE"
        /\ pending[c] # NoPending
        /\ Handled(r, Req("message", 0, "object", d))
        /\ pending' = [pending EXCEPT ![c] = NoPending]
        /\ endAdv' = IF r.adv THEN [endAdv EXCEPT ![pending[c].ev] = @ + 1]
                     ELSE endAdv
        /\ UNCHANGED reported

Next ==
    \/ \E c \in Conns : Connect(c)
    \/ \E c \in Conns : Closing(c)
    \/ \E c \in Conns : Closed(c)
    \/ \E b \in BodiesOf(PlayData) : HttpPlay(b)
    \/ \E b \in BodiesOf(StopData) : HttpStop(b)
    \/ \E b \in BodiesOf(SkipData) : HttpSkip(b)
    \/ \E i \in WsInputs : WsMessage(i)

Spec == Init /\ [][Next]_vars

\* The same machine with the pages of the listeners: each page signals the
\* end of the track it plays, and the signal takes time to arrive.  The
\* commands are the authorized ones that change the queue.
Authorized(S) == { d \in S : d.key = sSecret }
Playable(S) == { d \in S : buildTrack(d.url, d.query, d.text, d.requester) # Null }
Body(d) == [json |-> "object", data |-> [d EXCEPT !.action = Undefined]]

NextPages ==
    \/ \E c \in Conns : Connect(c)
    \/ \E c \in Conns : Closing(c)
    \/ \E c \in Conns : Closed(c)
    \/ \E d \in Playable(Authorized(PlayData)) : HttpPlay(Body(d))
    \/ \E d \in Authorized(StopData) : HttpStop(Body(d))
    \/ \E d \in Authorized(SkipData) : HttpSkip(Body(d))
    \/ \E c \in Conns : EndedSend(c)
    \/ \E c \in Conns : EndedRecv(c)

SpecPages == Init /\ [][NextPages]_vars

----------------------------------------------------------------------------
\* Vocabulary of the properties.  lastCmd tells which handler the latest
\* step ran, so a property about a command reads lastCmd' in a step, or
\* lastCmd in the state the handler left.

IsMessage(cmd, action) ==
    cmd.via = "message" /\ cmd.json = "object" /\ cmd.data.action = action

IsPlayCmd(cmd) == cmd.via = "POST /play" \/ IsMessage(cmd, sPlay)
IsStopCmd(cmd) == cmd.via = "POST /stop" \/ IsMessage(cmd, sStop)
IsSkipCmd(cmd) == cmd.via = "POST /skip" \/ IsMessage(cmd, sSkip)
IsEndedCmd(cmd) == IsMessage(cmd, sEnded)
IsHttp(cmd) == cmd.via \in {"POST /play", "POST /stop", "POST /skip"}

CmdProps(cmd) == Props(cmd.json, cmd.data)

SecretSet == RADIO_KEY # Str(<<>>)

\* The command carries the credential the configuration asks for.
Permitted(cmd) == ~SecretSet \/ CmdProps(cmd).key = RADIO_KEY

SomeoneListens == \E c \in Conns : readyState[c] = "OPEN"

----------------------------------------------------------------------------
\* C1: when several pages signal the end of the same track (one "ended"
\* message each, carrying its location), the signals make nextTrack run at
\* most once, whatever the queue holds: no track is skipped that did not end.
\* Checked under SpecPages.  It fails: the handler compares locations, and a
\* queued track with the same location is taken for the one that ended.
C1_OneAdvancePerEnd == \A r \in Refs : endAdv[r] <= 1

----------------------------------------------------------------------------
\* C2: in every state a handler leaves, a non-empty queue comes with a
\* track in nowPlaying.
C2_QueueOnlyWhilePlaying == Len(queue) > 0 => nowPlaying # Null

\* An authorized skip has promoted the head and tracks are still queued.
C2_Witness ==
    /\ IsSkipCmd(lastCmd) /\ Permitted(lastCmd)
    /\ Len(queue) > 0
    /\ nowPlaying # Null

----------------------------------------------------------------------------
\* The effect of one call of nextTrack, read off a step.
OneAdvance ==
    IF Len(queue) > 0
    THEN /\ nowPlaying' = Head(queue)
         /\ queue' = Tail(queue)
         /\ Len(queue') = Len(queue) - 1
         /\ currentState' = [action |-> sPlay, url |-> Head(queue).url,
                             text |-> Head(queue).text,
                             requester |-> Head(queue).requester]
         /\ playLog' = Append(playLog, Head(queue).ref)
    ELSE /\ nowPlaying' = Null
         /\ queue' = <<>>
         /\ currentState' = Idle
         /\ playLog' = playLog

\* C3: an "ended" message whose location is not that of nowPlaying, or that
\* arrives while nothing plays, changes nothing and sends nothing; one that
\* carries the location of nowPlaying makes exactly one advance.
C3_EndedOnlyForCurrent ==
    [][IsEndedCmd(lastCmd') =>
         IF nowPlaying # Null /\ lastCmd'.data.url = nowPlaying.url
         THEN OneAdvance
         ELSE /\ UNCHANGED <<nowPlaying, queue, currentState, playLog>>
              /\ sent' = NoSent]_vars

\* A stale "ended" was dropped: a track plays, others wait, someone listens,
\* and the message named another location and nothing was sent.
C3_Witness ==
    /\ IsEndedCmd(lastCmd)
    /\ nowPlaying # Null
    /\ lastCmd.data.url # nowPlaying.url
    /\ Len(queue) > 0
    /\ SomeoneListens
    /\ sent = NoSent

----------------------------------------------------------------------------
\* C4: with a secret configured, a play, stop or skip whose key is missing or
\* is not the secret changes neither nowPlaying, queue nor the flat state and
\* sends no message to anyone; over HTTP it is answered 403.
C4_UnauthorizedRejected ==
    [][(/\ IsPlayCmd(lastCmd') \/ IsStopCmd(lastCmd') \/ IsSkipCmd(lastCmd')
        /\ SecretSet
        /\ CmdProps(lastCmd').key # RADIO_KEY)
       => /\ UNCHANGED <<nowPlaying, queue, currentState, playLog>>
          /\ sent' = NoSent
          /\ IsHttp(lastCmd') => response'.status = 403]_vars

\* A stop with a wrong key arrived on a connection while a track played and
\* others waited.
C4_Witness ==
    /\ SecretSet
    /\ IsMessage(lastCmd, sStop)
    /\ lastCmd.data.key = sWrong
    /\ nowPlaying # Null
    /\ Len(queue) > 0
    /\ SomeoneListens

----------------------------------------------------------------------------
\* C5: whatever a connection or a request sends, the process keeps running.
\* It fails: the message "null" parses, and reading its action throws.
C5_NeverCrashes == ~crashed

----------------------------------------------------------------------------
\* C6: a new connection is sent exactly the two messages the latest
\* broadcastState sent (the idle ones before any broadcast), field for field.
\* It fails: the queue entries of the connection handler have no requester.
C6_SyncEqualsLastBroadcast ==
    lastCmd.via = "connection" => sent[lastCmd.conn] = lastBroadcast

----------------------------------------------------------------------------
\* C7: a play that is accepted (a track object was built, so the handler
\* reached enqueueOrPlay) sets nowPlaying to exactly that track and leaves
\* the queue empty when nothing played; otherwise it appends the track at
\* the tail of the queue and leaves nowPlaying alone.  It does not fail.
C7_EnqueueOrStart ==
    [][nextRef' # nextRef =>
         LET d == CmdProps(lastCmd')
             t == NewTrack(buildTrack(d.url, d.query, d.text, d.requester))
         IN  /\ IsPlayCmd(lastCmd')
             /\ ~crashed'
             /\ IsHttp(lastCmd') => response'.status = 200
             /\ IF nowPlaying = Null
                THEN nowPlaying' = t /\ queue' = <<>>
                ELSE /\ nowPlaying' = nowPlaying
                     /\ Len(queue') = Len(queue) + 1
                     /\ queue' = Append(queue, t)]_vars

\* A play was appended behind another queued track: the newest track object
\* is the second of the queue.
C7_Witness ==
    /\ IsPlayCmd(lastCmd)
    /\ Len(queue) = 2
    /\ queue[2].ref = nextRef - 1
    /\ nowPlaying # Null

----------------------------------------------------------------------------
\* C8: every step that calls nextTrack (an authorized skip, or an "ended"
\* message carrying the location of nowPlaying) removes exactly the head of
\* a non-empty queue and makes it nowPlaying, the rest keeping its order; on
\* an empty queue it clears nowPlaying and the flat state becomes the stop
\* state.
C8_Advance ==
    [][(\/ IsSkipCmd(lastCmd') /\ Permitted(lastCmd')
        \/ /\ IsEndedCmd(lastCmd')
           /\ nowPlaying # Null
           /\ lastCmd'.data.url = nowPlaying.url)
       => /\ OneAdvance
          /\ \A i \in DOMAIN queue' : queue'[i] = queue[i + 1]
          /\ \A c \in Conns : readyState[c] = "OPEN" =>
                sent'[c] = <<stringify(currentState'),
                             QueueMsg(nowPlaying', queue')>>]_vars

\* A skip promoted the head of a queue of two: one track is still queued and
\* the second track started is the one playing.
C8_Witness ==
    /\ IsSkipCmd(lastCmd) /\ Permitted(lastCmd)
    /\ Len(queue) = 1
    /\ Len(playLog) = 2
    /\ nowPlaying # Null
    /\ nowPlaying.ref = playLog[2]

----------------------------------------------------------------------------
\* C9: tracks start in the order their play commands were accepted (track
\* identities are given in that order): the log of started tracks ascends.
C9_PlayedInAcceptanceOrder ==
    \A i, j \in DOMAIN playLog : i < j => playLog[i] < playLog[j]

\* Three tracks have started, the later two from the queue after "ended"
\* messages or skips.
C9_Witness ==
    /\ Len(playLog) = 3
    /\ IsEndedCmd(lastCmd) \/ IsSkipCmd(lastCmd)

----------------------------------------------------------------------------
\* C10: after an authorized stop, over HTTP or on a connection, nowPlaying is
\* null, the queue is empty, the flat state is the stop state with null url,
\* text and requester, and every open connection was sent that state.
C10_StopResets ==
    (IsStopCmd(lastCmd) /\ Permitted(lastCmd)) =>
        /\ nowPlaying = Null
        /\ queue = <<>>
        /\ currentState = Idle
        /\ \A c \in Conns : readyState[c] = "OPEN" =>
              sent[c] = <<[action |-> sStop, url |-> Null, text |-> Null,
                           requester |-> Null],
                          [action |-> sQueue, nowPlaying |-> Null, queue |-> <<>>]>>

\* A stop on a connection dropped a queued track that never started, and
\* listeners were told.
C10_Witness ==
    /\ IsMessage(lastCmd, sStop) /\ Permitted(lastCmd)
    /\ playLog # <<>>
    /\ playLog[Len(playLog)] < nextRef - 1
    /\ \E c \in Conns : readyState[c] = "OPEN" /\ Len(sent[c]) = 2

----------------------------------------------------------------------------
\* C11: an authorized skip, over HTTP or on a connection, does what one
\* advance does: the head of the queue becomes nowPlaying (nothing plays if
\* the queue was empty), at most one track leaves the queue, and the tracks
\* behind the head stay queued: a skip is never a stop.
C11_SkipIsAdvance ==
    [][(IsSkipCmd(lastCmd') /\ Permitted(lastCmd'))
       => /\ Len(queue) - Len(queue') <= 1
          /\ queue' = IF queue = <<>> THEN <<>> ELSE Tail(queue)
          /\ nowPlaying' = IF queue = <<>> THEN Null ELSE Head(queue)
          /\ Len(queue) >= 2 => queue' # <<>>
          /\ ~crashed']_vars

\* A skip message left a track queued behind the one it promoted.
C11_Witness ==
    /\ IsMessage(lastCmd, sSkip) /\ Permitted(lastCmd)
    /\ Len(queue) >= 1
    /\ Len(playLog) >= 2
    /\ nowPlaying # Null /\ nowPlaying.ref = playLog[Len(playLog)]

\* ---------------------------------------------------------------------------
\* Sends that throw.  wss.clients is walked in insertion order; connections
\* here join in the order of their numbers, so that the order of the walk is
\* the order of the numbers.  Each command runs with at most one connection
\* whose send throws.

ConnectInOrder(c) ==
    /\ Connect(c)
    /\ \A d \in Conns : d > c => readyState[d] = "NONE"

BadSets == {{}} \cup {{f} : f \in Conns}

NextSendFail ==
    \/ \E c \in Conns : ConnectInOrder(c)
    \/ \E c \in Conns : Closing(c)
    \/ \E c \in Conns : Closed(c)
    \/ \E d \in Authorized(PlayData), bad \in BadSets : HttpPlayOn(Body(d), bad)
    \/ \E d \in Authorized(StopData), bad \in BadSets : HttpStopOn(Body(d), bad)
    \/ \E d \in Authorized(SkipData), bad \in BadSets : HttpSkipOn(Body(d), bad)
    \/ \E d \in Authorized(PlayData \cup StopData \cup SkipData), bad \in BadSets :
          WsMessageOn([json |-> "object", data |-> d], bad)

SpecSendFail == Init /\ [][NextSendFail]_vars

\* C12: when a send to one connection throws during a broadcast, every other
\* open connection has still received the messages of that broadcast, and the
\* command has completed: the process is alive and a REST caller got its
\* success reply.
C12_SendFailureContained ==
    threw # {} =>
        /\ \A c \in Conns :
              (readyState[c] = "OPEN" /\ c \notin threw)
                 => sent[c] \in {<<stringify(currentState),
                                   QueueMsg(nowPlaying, queue)>>,
                                 <<ErrorMsg>>}
        /\ ~crashed
        /\ IsHttp(lastCmd) => response.status = 200

----------------------------------------------------------------------------
\* C13: with no secret configured, every play, stop and skip is carried out
\* whatever key it carries, none included, over HTTP and on a connection: it
\* is never answered 403, a stop resets the playback state, a skip advances,
\* and a play that resolves to a track starts it or queues it.
C13_OpenWithoutSecret ==
    [][(/\ ~SecretSet
        /\ IsPlayCmd(lastCmd') \/ IsStopCmd(lastCmd') \/ IsSkipCmd(lastCmd'))
       => /\ IsHttp(lastCmd') => response'.status # 403
          /\ IsStopCmd(lastCmd') =>
                (nowPlaying' = Null /\ queue' = <<>> /\ currentState' = Idle)
          /\ IsSkipCmd(lastCmd') =>
                /\ queue' = IF queue = <<>> THEN <<>> ELSE Tail(queue)
                /\ nowPlaying' = IF queue = <<>> THEN Null ELSE Head(queue)
          /\ (/\ IsPlayCmd(lastCmd')
              /\ buildTrack(CmdProps(lastCmd').url, CmdProps(lastCmd').query,
                            CmdProps(lastCmd').text,
                            CmdProps(lastCmd').requester) # Null) =>
                /\ nextRef' = nextRef + 1
                /\ IF nowPlaying = Null
                   THEN nowPlaying' # Null /\ nowPlaying'.ref = nextRef
                   ELSE /\ Len(queue') = Len(queue) + 1
                        /\ queue'[Len(queue')].ref = nextRef]_vars

\* With no secret configured, a play carrying a wrong key was queued behind
\* the playing track.
C13_Witness ==
    /\ ~SecretSet
    /\ IsPlayCmd(lastCmd)
    /\ CmdProps(lastCmd).key = sWrong
    /\ nowPlaying # Null
    /\ queue # <<>>
    /\ queue[Len(queue)].ref = nextRef - 1

----------------------------------------------------------------------------
\* C14: an authorized play that resolves to no track leaves nowPlaying, the
\* queue and the flat state as they were; on a connection every open
\* connection is sent exactly one error message, and over HTTP the caller is
\* answered with status 400.
C14_UnresolvedPlay ==
    [][(/\ IsPlayCmd(lastCmd')
        /\ Permitted(lastCmd')
        /\ buildTrack(CmdProps(lastCmd').url, CmdProps(lastCmd').query,
                      CmdProps(lastCmd').text, CmdProps(lastCmd').requester) = Null)
       => /\ UNCHANGED <<nowPlaying, queue, currentState, playLog, nextRef>>
          /\ IsMessage(lastCmd', sPlay) =>
                \A c \in Conns :
                    sent'[c] = IF readyState[c] = "OPEN" THEN <<ErrorMsg>> ELSE <<>>
          /\ IsHttp(lastCmd') => (response'.status = 400 /\ sent' = NoSent)]_vars

\* A play of a name the library does not know arrived on a connection while
\* a track played and another waited, and two connections were told.
C14_Witness ==
    /\ IsMessage(lastCmd, sPlay)
    /\ Permitted(lastCmd)
    /\ lastCmd.data.query = Str(<<"z">>)
    /\ nowPlaying # Null
    /\ queue # <<>>
    /\ \A c \in Conns : sent[c] = <<ErrorMsg>>

----------------------------------------------------------------------------
\* The two ways a permitted play resolves to no track: a name was given and
\* the library does not know it, or neither a name nor a location was given.

Unresolved(cmd) ==
    buildTrack(CmdProps(cmd).url, CmdProps(cmd).query, CmdProps(cmd).text,
               CmdProps(cmd).requester) = Null

MissCmd(cmd) ==
    /\ IsPlayCmd(cmd) /\ Permitted(cmd) /\ Unresolved(cmd)
    /\ Truthy(CmdProps(cmd).query)

InvalidCmd(cmd) ==
    /\ IsPlayCmd(cmd) /\ Permitted(cmd) /\ Unresolved(cmd)
    /\ ~Truthy(CmdProps(cmd).query) /\ ~Truthy(CmdProps(cmd).url)

\* C15 as stated: a play of an unknown name and a play with no usable input
\* have different outcomes for the caller, so that the two can be told
\* apart.  Here the one follows the other on the same transport.  It fails:
\* buildTrack returns null for both, and the handlers answer null one way.
C15_MissDiffersFromInvalid ==
    [][(MissCmd(lastCmd) /\ InvalidCmd(lastCmd') /\ lastCmd'.via = lastCmd.via)
       => /\ IsHttp(lastCmd') => response' # response
          /\ lastCmd'.via = "message" => sent' # sent]_vars

\* C15 as the code has it: a permitted play that resolves to no track has one
\* outcome, whether a name was given or not: status 400 with the error
\* "invalid url/query" over HTTP, and the one error message "Song not found /
\* Invalid Payload" to every open connection on a connection.
C15_OneRejection ==
    (MissCmd(lastCmd) \/ InvalidCmd(lastCmd)) =>
        /\ IsHttp(lastCmd) => response = Http(400, "invalid url/query")
        /\ lastCmd.via = "message" =>
              \A c \in Conns : readyState[c] = "OPEN" =>
                  sent[c] = <<[action |-> sError, text |-> sNotFound]>>

\* A request to play a name the library does not know was answered 400.
C15_Witness ==
    /\ MissCmd(lastCmd)
    /\ IsHttp(lastCmd)
    /\ response.status = 400

----------------------------------------------------------------------------
\* buildTrack over its input space.  One play request from the idle state
\* shows what buildTrack returned: the track that starts, or the 400.

MaxBuilds == 1

BuildUrls ==
    {Undefined, Str(<<" ">>), Str(<<"A","b"," ">>), Str(<<"n">>), urlDirect}
BuildQueries ==
    {Undefined, Str(<<" ">>), Str(<<"a","b">>), Str(<<"N">>), Str(<<"z">>),
     Str(<<"c","o","n","s","t","r","u","c","t","o","r">>)}
BuildTexts == {Undefined, Str(<<" ">>), Str(<<"T">>)}

BuildData ==
    { Data(sPlay, u, q, t, Undefined, sSecret) :
        u \in BuildUrls, q \in BuildQueries, t \in BuildTexts }

Build(d) ==
    /\ nextRef <= MaxBuilds
    /\ HttpPlay(Body(d))

NextBuild == \E d \in BuildData : Build(d)

SpecBuild == Init /\ [][NextBuild]_vars

\* The resolution order as it is described: blank is absent or only spaces,
\* and a name is in the catalog when the catalog file has an entry for it.
NonBlank(x) == IsString(x) /\ trim(x.v) # <<>>

Absolute(x) == IsString(x) /\ startsWith(x.v, sHttp)

CatalogEntry(name) == IF norm(name) \in SongNames THEN SONGS[norm(name)] ELSE Null

InOrder(d) ==
    LET name == IF NonBlank(d.query) THEN d.query
                ELSE IF NonBlank(d.url) THEN d.url ELSE Undefined
        hit == IF name = Undefined THEN Null ELSE CatalogEntry(name)
    IN  IF Absolute(d.url)
        THEN [url |-> d.url,
              text |-> IF NonBlank(d.text) THEN d.text ELSE sNowPlaying]
        ELSE IF hit # Null
        THEN [url |-> hit.url,
              text |-> IF Truthy(hit.title) THEN hit.title
                       ELSE IF IsString(d.text) THEN d.text ELSE sNowPlaying]
        ELSE Null

\* The track object the latest play created.
Newest == IF queue # <<>> THEN queue[Len(queue)] ELSE nowPlaying

\* C16: for every combination of location, name and text, a play is resolved
\* in the described order: an absolute location is passed through with the
\* text or the default; otherwise the catalog is looked up with the name when
\* it is not blank, else with a bare location that is not blank, and a hit
\* gives the catalog's location with its title, else the text, else the
\* default; otherwise the play is unresolved.  It fails: a name of spaces
\* only stops the bare location from being looked up.
C16_ResolutionOrder ==
    (lastCmd.via = "POST /play" /\ Permitted(lastCmd)) =>
        LET e == InOrder(CmdProps(lastCmd))
        IN  IF e = Null
            THEN response.status = 400
            ELSE /\ response.status = 200
                 /\ Newest # Null
                 /\ Newest.ref = nextRef - 1
                 /\ Newest.url = e.url
                 /\ Newest.text = e.text

----------------------------------------------------------------------------
\* C17 as stated: after every command, nothing is playing if and only if the
\* queue is empty.  It fails: a single track plays with nothing queued
\* behind it.
C17_IdleIffQueueEmpty == (nowPlaying = Null) <=> (queue = <<>>)

\* C17 as the code has it: after every command, if nothing is playing then
\* the queue is empty: the head of a queue is promoted at once.  The
\* converse does not hold, a track may play with an empty queue.
C17_IdleImpliesQueueEmpty == nowPlaying = Null => queue = <<>>

\* Two tracks were played and skipped: nothing plays and nothing waits.
C17_Witness ==
    /\ IsSkipCmd(lastCmd) /\ Permitted(lastCmd)
    /\ nowPlaying = Null
    /\ queue = <<>>
    /\ Len(playLog) >= 2

----------------------------------------------------------------------------
\* C18: a command's change of state and its broadcast are one step.  With
\* sends that do not fail, and whatever the order of the commands of the
\* connections and the requests, between two handlers the latest flat state
\* message each open connection has received is the current flat state.
C18_HeardIsCurrent ==
    \A c \in Conns : readyState[c] = "OPEN" => heard[c] = stringify(currentState)

\* A skip promoted a queued track while two connections listened, and both
\* have heard it.
C18_Witness ==
    /\ IsSkipCmd(lastCmd) /\ Permitted(lastCmd)
    /\ Len(playLog) >= 2
    /\ nowPlaying # Null
    /\ \A c \in Conns : readyState[c] = "OPEN" /\ Len(sent[c]) = 2
                        /\ heard[c].action = sPlay

----------------------------------------------------------------------------
\* C19: an "ended" message is handled without looking at its key.  With or
\* without a configured secret, and whether the message carries the secret,
\* a wrong key or none, a message with the location of nowPlaying makes one
\* advance.
C19_EndedNotGated ==
    [][(/\ IsEndedCmd(lastCmd')
        /\ nowPlaying # Null
        /\ CmdProps(lastCmd').url = nowPlaying.url)
       => OneAdvance /\ ~crashed']_vars

\* With a secret configured, an "ended" message with a wrong key promoted the
\* head of the queue, and a connection was told.
C19_Witness ==
    /\ SecretSet
    /\ IsEndedCmd(lastCmd)
    /\ lastCmd.data.key = sWrong
    /\ nowPlaying # Null
    /\ Len(playLog) >= 2
    /\ \E c \in Conns : Len(sent[c]) = 2

----------------------------------------------------------------------------
\* C20: the flat state agrees with nowPlaying in every state: while a track
\* plays, currentState is {action: "play"} with the url, text and requester
\* of nowPlaying; while nothing plays, it is {action: "stop"} with url, text
\* and requester null.
C20_FlatStateAgrees ==
    IF nowPlaying = Null
    THEN currentState = [action |-> sStop, url |-> Null, text |-> Null,
                         requester |-> Null]
    ELSE currentState = [action |-> sPlay, url |-> nowPlaying.url,
                         text |-> nowPlaying.text,
                         requester |-> nowPlaying.requester]

\* The end of a track promoted the catalog track queued behind it, and the
\* flat state names it.
C20_Witness ==
    /\ IsEndedCmd(lastCmd)
    /\ Len(playLog) >= 2
    /\ nowPlaying # Null
    /\ nowPlaying.ref = playLog[Len(playLog)]
    /\ currentState.action = sPlay
    /\ currentState.url = urlSongAb

----------------------------------------------------------------------------
\* Draining.  The commands are the permitted ones that resolve, the messages
\* are the "ended" messages of one connection, and the process stays alive.  Fairness states the hypothesis
\* under which a queue drains: while a track is nowPlaying, an "ended"
\* message with its location, or a skip, is eventually handled.  Plays stop
\* being accepted once MaxTracks tracks were built.

EndedInput(d) == [json |-> "object", data |-> d]

\* The "ended" messages of pages: the location, no key.
PageEnded == { d \in EndedData : d.key = Undefined }

Advance ==
    /\ nowPlaying # Null
    /\ \/ \E d \in Authorized(SkipData) : HttpSkip(Body(d))
       \/ \E d \in PageEnded : d.url = nowPlaying.url /\ WsMessage(EndedInput(d))

NextDrain ==
    \/ Connect(1)
    \/ Closing(1)
    \/ Closed(1)
    \/ \E d \in Playable(Authorized(PlayData)) : HttpPlay(Body(d))
    \/ \E d \in Authorized(StopData) : HttpStop(Body(d))
    \/ \E d \in Authorized(SkipData) : HttpSkip(Body(d))
    \/ \E d \in PageEnded : WsMessage(EndedInput(d))

SpecDrain == Init /\ [][NextDrain]_vars /\ WF_vars(Advance)

Queued(q) == { q[i] : i \in 1..Len(q) }

\* C21: the queue drains.  When the track that is nowPlaying always gets its
\* "ended" message or a skip in the end, and plays stop coming, the server
\* reaches the idle state: nothing plays, nothing waits, the flat state is
\* the stop state.  On the way every queued track becomes nowPlaying exactly
\* once, unless a stop removed it: a track leaves the queue only by being
\* promoted or by a stop, and no track is started twice.
C21_QueueDrains ==
    /\ (nowPlaying # Null) ~>
          (nowPlaying = Null /\ queue = <<>> /\ currentState = Idle)
    /\ [][~IsStopCmd(lastCmd') =>
             \A t \in Queued(queue) :
                 \/ t \in Queued(queue')
                 \/ nowPlaying' = t /\ playLog' = Append(playLog, t.ref)]_vars
    /\ [](\A i, j \in 1..Len(playLog) : playLog[i] = playLog[j] => i = j)

\* The "ended" message of the last of three tracks arrived: all three were
\* played, in turn, and the server is idle.
C21_Witness ==
    /\ IsEndedCmd(lastCmd)
    /\ nowPlaying = Null
    /\ queue = <<>>
    /\ currentState = Idle
    /\ Len(playLog) >= 3

====
